---- MODULE Spec2Model ----
(***************************************************************************)
(* Model of the asynchronous extraction orchestrator of extraction.py:     *)
(* limited_task, extract_fields_async, parse_response_content,             *)
(* extract_multiple_pages_async and extract_multiple_pdfs, run on one      *)
(* asyncio event loop.  One action is one run of a coroutine between two   *)
(* suspension points.                                                      *)
(***************************************************************************)
EXTENDS Integers, Sequences, FiniteSets, TLC

\* ------------------------------------------------------------------ bounds

\* Largest number of tasks of one call: its documents plus their pages.
MaxTasks == 4
\* Largest ASYNC_CONCURRENCY_LIMIT tried.
MaxLimit == 1
\* Largest number of page extractions issued at once in the burst scenario.
MaxBurst == 3
\* Largest max_rate and time_period (in ticks) of the rate limiter tried.
MaxRate == 2
MaxPeriod == 2
\* Largest bucket capacity tried, in level units: max_rate * time_period.
MaxCapacity == 4
\* Largest number of tasks (documents plus pages) of a call followed to its
\* end under fairness.
MaxLiveTasks == 3
\* Largest number of /summarize requests served at once.
MaxRequests == 2

\* ------------------------------------------------------- Python values

\* A Python value: its type name, its text (for a str) and its items (for a
\* dict, or the attributes of an object).
PyStr(s) == [kind |-> "str", v |-> s, items |-> <<>>]
PyNone == [kind |-> "NoneType", v |-> "", items |-> <<>>]
PyDict(f) == [kind |-> "dict", v |-> "", items |-> f]
EmptyDict == PyDict(<<>>)

\* class ExtractionClass(BaseModel): the 22 required str fields.
FieldNames ==
    { "fullName", "address", "loanType", "loanAmount", "emiComfort",
      "monthlyObligations", "incomeSource", "salaryAmount",
      "designationEmployer", "otherIncomeSources", "businessRevenue",
      "businessProfit", "businessSalary", "atPropertyLocation",
      "propertyAddress", "propertyType", "propertyStructure", "propertyUsage",
      "landArea", "marketValue", "existingLoan", "existingLoanEmi" }

\* The fields in declaration order (the order of a dumped record).
FieldOrder ==
    << "fullName", "address", "loanType", "loanAmount", "emiComfort",
       "monthlyObligations", "incomeSource", "salaryAmount",
       "designationEmployer", "otherIncomeSources", "businessRevenue",
       "businessProfit", "businessSalary", "atPropertyLocation",
       "propertyAddress", "propertyType", "propertyStructure", "propertyUsage",
       "landArea", "marketValue", "existingLoan", "existingLoanEmi" >>

\* An ExtractionClass instance: pydantic builds one only with every field
\* present and a str.
ExtractionClass(f) == [kind |-> "ExtractionClass", v |-> "", items |-> f]

\* isinstance(value, ExtractionClass)
IsInstanceExtractionClass(value) == value.kind = "ExtractionClass"

\* Python truthiness of the values of this model.
Truthy(value) ==
    CASE value.kind = "NoneType" -> FALSE
      [] value.kind = "str" -> value.v # ""
      [] value.kind = "dict" -> DOMAIN value.items # {}
      [] OTHER -> TRUE

\* A value holds exactly the ExtractionClass fields, each a str.
ConformsToSchema(value) ==
    /\ value.kind \in {"dict", "ExtractionClass"}
    /\ DOMAIN value.items = FieldNames
    /\ \A k \in FieldNames : value.items[k].kind = "str"

\* ------------------------------------------------------------ JSON text

\* A text is a sequence of tokens: punctuation, the literal null, or a
\* string literal with its content.
Punct(c) == [t |-> "punct", v |-> c]
StrTok(s) == [t |-> "str", v |-> s]
NullTok == [t |-> "null", v |-> "null"]

IsScalarTok(tok) == tok.t \in {"str", "null"}
ScalarOf(tok) == IF tok.t = "str" THEN PyStr(tok.v) ELSE PyNone

Failed == [ok |-> FALSE, value |-> PyNone]
Parsed(value) == [ok |-> TRUE, value |-> value]

\* The members of an object from position i: string ":" scalar, separated
\* by "," and closed by "}", which must be the last token.  A repeated key
\* keeps its last value, as json.loads does.
RECURSIVE ParseMembers(_, _, _)
ParseMembers(toks, i, acc) ==
    IF i + 3 > Len(toks) THEN Failed
    ELSE IF ~(/\ toks[i].t = "str"
              /\ toks[i + 1] = Punct(":")
              /\ IsScalarTok(toks[i + 2])) THEN Failed
    ELSE LET key == toks[i].v
             acc2 == [k \in DOMAIN acc \cup {key} |->
                         IF k = key THEN ScalarOf(toks[i + 2]) ELSE acc[k]]
         IN  IF toks[i + 3] = Punct("}")
             THEN IF i + 3 = Len(toks) THEN Parsed(PyDict(acc2)) ELSE Failed
             ELSE IF toks[i + 3] = Punct(",")
             THEN ParseMembers(toks, i + 4, acc2)
             ELSE Failed

\* json.loads(text): the parsed value, or a JSONDecodeError (ok = FALSE).
JsonLoadsMutant(toks) == Failed
JsonLoads(toks) ==
    IF Len(toks) = 0 THEN Failed
    ELSE IF Len(toks) = 1
    THEN IF IsScalarTok(toks[1]) THEN Parsed(ScalarOf(toks[1])) ELSE Failed
    ELSE IF toks[1] # Punct("{") THEN Failed
    ELSE IF Len(toks) = 2
    THEN IF toks[2] = Punct("}") THEN Parsed(EmptyDict) ELSE Failed
    ELSE ParseMembers(toks, 2, <<>>)

\* The text of a flat record over the keys keys[1..n], in that order.
RECURSIVE DumpMembers(_, _, _)
DumpMembers(keys, f, n) ==
    IF n = 0 THEN <<>>
    ELSE (IF n = 1 THEN <<>> ELSE DumpMembers(keys, f, n - 1) \o <<Punct(",")>>)
         \o <<StrTok(keys[n]), Punct(":"),
              IF f[keys[n]].kind = "str" THEN StrTok(f[keys[n]].v) ELSE NullTok>>

DumpRecord(keys, f) ==
    <<Punct("{")>> \o DumpMembers(keys, f, Len(keys)) \o <<Punct("}")>>

\* ------------------------------------------------------------- the inputs

\* input_type values: the three the code accepts and one it does not.
\* "" is the default input_type of extract_multiple_pages_async.
PermittedKinds == {"PDF", "IMAGE", "TEXT"}
Kinds == PermittedKinds \cup {"CSV", ""}

\* The public coroutines a caller can invoke.
EntryPoints ==
    {"extract_multiple_pdfs", "extract_multiple_pages_async", "extract_fields_async"}

\* input_paths[d], as its "/"-separated segments.
InputPaths ==
    << <<"docs", "a.pdf">>, <<"docs", "in", "b.pdf">>, <<"c.pdf">>,
       <<"docs", "d.pdf">>, <<"e.pdf">>, <<"docs", "f.pdf">> >>

\* pdf_path.split("/")[-1]
LastSegment(path) == path[Len(path)]

\* The content of page i (zero-based) of document d.
PageTexts ==
    << <<"a0", "a1", "a2", "a3", "a4">>, <<"b0", "b1", "b2", "b3", "b4">>,
       <<"c0", "c1", "c2", "c3", "c4">>, <<"d0", "d1", "d2", "d3", "d4">>,
       <<"e0", "e1", "e2", "e3", "e4">>, <<"f0", "f1", "f2", "f3", "f4">> >>

PageText(p) == PageTexts[p[1]][p[2] + 1]

AllTexts == {PageTexts[d][i] : d \in DOMAIN PageTexts, i \in 1..5}

\* --------------------------------------------------- the model service

\* What the extraction model can answer for a page (response.output_text).
MockOutputs == {"conforming", "partial", "truncated"}

\* The record the extraction model reads off a page: every field a str.
FullFields(content) ==
    [k \in FieldNames |-> IF k = "fullName" THEN PyStr(content) ELSE PyStr("NA")]

OutputText(out, content) ==
    CASE out = "conforming" -> DumpRecord(FieldOrder, FullFields(content))
      [] out = "partial" ->
            DumpRecord(<<"fullName", "address">>, FullFields(content))
      [] OTHER ->
            \* the closing brace is missing
            SubSeq(DumpRecord(FieldOrder, FullFields(content)), 1, 4 * Len(FieldOrder))

\* What client.responses.parse can return for a text: the response object
\* of the client library (the parsed record is its output_parsed) or an
\* ExtractionClass instance.
CoercionResponses == {"ParsedResponse", "ExtractionClass"}

ParsedResponse(parsed) ==
    [kind |-> "ParsedResponse", v |-> "",
     items |-> [a \in {"output_parsed"} |-> parsed]]

CoercionResponse(resp, content) ==
    CASE resp = "ParsedResponse" -> ParsedResponse(ExtractionClass(FullFields(content)))
      [] resp = "ExtractionClass" -> ExtractionClass(FullFields(content))
      [] OTHER -> PyNone

\* ------------------------------------------------------------- the state

VARIABLES
    entry,                     \* the coroutine the caller invoked
    nIn, nOut, parser,         \* len(input_paths), len(output_paths), parser
    npages,                    \* pages of each document
    ASYNC_CONCURRENCY_LIMIT,   \* constants.ASYNC_CONCURRENCY_LIMIT
    max_rate, time_period,     \* rate_limiter.max_rate, rate_limiter.time_period
    drv,                       \* extract_multiple_pdfs: where it stands
    sem,                       \* free permits of the semaphore
    doc,                       \* per document: limited_task + aggregator
    page,                      \* per page: extract_fields_async
    order,                     \* per document: pages in completion order
    level,                     \* rate_limiter level, in 1/time_period units
    admitLog,                  \* model calls admitted in each of the last time_period ticks
    files,                     \* output index -> what was written there
    conversions, parserCalls,  \* base_64_conversation / external parser calls
    modelCalls                 \* requests sent to the model service

vars ==
    << entry, nIn, nOut, parser, npages, ASYNC_CONCURRENCY_LIMIT,
       max_rate, time_period, drv, sem, doc, page, order, level, admitLog,
       files, conversions, parserCalls, modelCalls >>

inputs ==
    << entry, nIn, nOut, parser, npages, ASYNC_CONCURRENCY_LIMIT,
       max_rate, time_period >>

Docs == DOMAIN doc
Pages == DOMAIN page
PagesOf(d) == {p \in Pages : p[1] = d}

\* A document task: where it stands, its input_type, whether it holds a
\* permit of the semaphore.
NewDoc(pc, kind) == [pc |-> pc, input_type |-> kind, permit |-> FALSE]

\* A page task: where it stands, its input_type, the output_text of its
\* extraction response and the response of its coercion call (once
\* received), its limiter acquisitions and its model requests.
NewPage(pc, kind) ==
    [pc |-> pc, input_type |-> kind, out |-> "none", resp |-> "none",
     acquired |-> 0, calls |-> 0]

RECURSIVE SumTo(_, _)
SumTo(f, n) == IF n = 0 THEN 0 ELSE f[n] + SumTo(f, n - 1)

Min(a, b) == IF a < b THEN a ELSE b
Max(a, b) == IF a < b THEN b ELSE a

PageIds(np) == {<<d, i>> : d \in DOMAIN np, i \in 0..4}
PagesFor(np) == {p \in PageIds(np) : p[2] < np[p[1]]}

\* ------------------------------------------------------ the rate limiter

\* AsyncLimiter(max_rate, time_period): a leaky bucket.  The level is kept
\* in units of 1/time_period of an acquisition, so that one tick of time
\* leaks max_rate units and one acquisition adds time_period units.
Capacity == max_rate * time_period

\* rate_limiter.has_capacity()
HasCapacity == level + time_period <= Capacity

\* Model calls admitted during the last time_period ticks, the current one
\* included.
WindowCount == SumTo(admitLog, Len(admitLog))

\* rate_limiter.acquire() returns: the level rises by one call.
Admit == level' = level + time_period

\* One tick of time passes: the bucket leaks, the window slides.
Tick ==
    /\ level' = Max(level - max_rate, 0)
    /\ admitLog' = [k \in 1..time_period |-> IF k = 1 THEN 0 ELSE admitLog[k - 1]]
    /\ UNCHANGED << inputs, drv, sem, doc, page, order, files, conversions,
                    parserCalls, modelCalls >>

\* ------------------------------------------------- extract_fields_async

\* Lines 71-84: the input kinds for which a content block is built.
KindAcceptedAny(input_type) == TRUE
KindAccepted(input_type) == input_type \in {"PDF", "IMAGE"} \/ input_type = "TEXT"

\* Lines 98-118: inside async with rate_limiter, client.responses.create
\* is issued by the task whose record is rec; the task suspends until the
\* response arrives.
issue_extraction_unlimited(p, rec) ==
    /\ page' = [page EXCEPT ![p] = [rec EXCEPT !.pc = "extract_call",
                                               !.calls = @ + 1]]
    /\ modelCalls' = modelCalls + 1
    /\ admitLog' = [admitLog EXCEPT ![1] = @ + 1]
    /\ UNCHANGED level
issue_extraction_request(p, rec) ==
    /\ Admit
    /\ page' = [page EXCEPT ![p] = [rec EXCEPT !.pc = "extract_call",
                                               !.acquired = @ + 1,
                                               !.calls = @ + 1]]
    /\ modelCalls' = modelCalls + 1
    /\ admitLog' = [admitLog EXCEPT ![1] = @ + 1]

\* Lines 155-167: inside async with rate_limiter, client.responses.parse
\* is issued.
issue_repair_unlimited(p, rec) ==
    /\ page' = [page EXCEPT ![p] = [rec EXCEPT !.pc = "repair_call",
                                               !.calls = @ + 1]]
    /\ modelCalls' = modelCalls + 1
    /\ admitLog' = [admitLog EXCEPT ![1] = @ + 1]
    /\ UNCHANGED level
issue_repair_request(p, rec) ==
    /\ Admit
    /\ page' = [page EXCEPT ![p] = [rec EXCEPT !.pc = "repair_call",
                                               !.acquired = @ + 1,
                                               !.calls = @ + 1]]
    /\ modelCalls' = modelCalls + 1
    /\ admitLog' = [admitLog EXCEPT ![1] = @ + 1]

\* A page task runs from its start to its first suspension (lines 71-99):
\* an input kind that is not accepted raises; otherwise the limiter is
\* acquired and the request issued, or the task waits for the limiter.
extract_fields_async_start(p) ==
    /\ page[p].pc = "ready"
    /\ IF ~KindAccepted(page[p].input_type)
       THEN /\ page' = [page EXCEPT ![p].pc = "raised"]
            /\ UNCHANGED << level, admitLog, modelCalls >>
       ELSE IF HasCapacity
       THEN issue_extraction_request(p, page[p])
       ELSE /\ page' = [page EXCEPT ![p].pc = "acquire_extract"]
            /\ UNCHANGED << level, admitLog, modelCalls >>
    /\ UNCHANGED << inputs, drv, sem, doc, order, files, conversions, parserCalls >>

\* Line 98: the limiter admits a task that waited in its acquire.
extract_fields_async_admitted(p) ==
    /\ page[p].pc = "acquire_extract"
    /\ HasCapacity
    /\ issue_extraction_request(p, page[p])
    /\ UNCHANGED << inputs, drv, sem, doc, order, files, conversions, parserCalls >>

\* Lines 151-153: the fast path of parse_response_content, for each
\* output_text the extraction model can answer on each page content.
ParseFast ==
    [out \in MockOutputs, content \in AllTexts |-> JsonLoads(OutputText(out, content))]

\* Lines 120-124 with 151-155: the response arrives; its text is parsed
\* strictly and returned, or the task goes on to the repair request.
extract_fields_async_response(p) ==
    /\ page[p].pc = "extract_call"
    /\ \E out \in MockOutputs :
         LET rec == [page[p] EXCEPT !.out = out]
         IN  IF ParseFast[out, PageText(p)].ok
             THEN /\ page' = [page EXCEPT ![p] = [rec EXCEPT !.pc = "returned"]]
                  /\ order' = [order EXCEPT ![p[1]] = Append(@, p[2])]
                  /\ UNCHANGED << level, admitLog, modelCalls >>
             ELSE IF HasCapacity
             THEN /\ issue_repair_request(p, rec)
                  /\ UNCHANGED order
             ELSE /\ page' = [page EXCEPT ![p] = [rec EXCEPT !.pc = "acquire_repair"]]
                  /\ UNCHANGED << order, level, admitLog, modelCalls >>
    /\ UNCHANGED << inputs, drv, sem, doc, files, conversions, parserCalls >>

\* The extraction request fails (an error of the model service).
extract_fields_async_error_retry(p) ==
    /\ page[p].pc = "extract_call"
    /\ IF page[p].calls < 2
       THEN /\ page' = [page EXCEPT ![p].calls = @ + 1]
            /\ modelCalls' = modelCalls + 1
       ELSE /\ page' = [page EXCEPT ![p].pc = "raised"]
            /\ UNCHANGED modelCalls
    /\ UNCHANGED << inputs, drv, sem, doc, order, level, admitLog, files,
                    conversions, parserCalls >>
extract_fields_async_error(p) ==
    /\ page[p].pc = "extract_call"
    /\ page' = [page EXCEPT ![p].pc = "raised"]
    /\ UNCHANGED << inputs, drv, sem, doc, order, level, admitLog, files,
                    conversions, parserCalls, modelCalls >>

\* ----------------------------------------------- parse_response_content

\* Line 155: the limiter admits a task that waited for the repair request.
parse_response_content_admitted(p) ==
    /\ page[p].pc = "acquire_repair"
    /\ HasCapacity
    /\ issue_repair_request(p, page[p])
    /\ UNCHANGED << inputs, drv, sem, doc, order, files, conversions, parserCalls >>

\* Lines 169-172: what is returned for the response of the coercion call.
RepairResultUnchecked(response) == response
RepairResult(response) ==
    IF Truthy(response) /\ IsInstanceExtractionClass(response)
    THEN response
    ELSE EmptyDict

\* The result for each response the coercion call can give on each page.
RepairedResult ==
    [resp \in CoercionResponses, content \in AllTexts |->
        RepairResult(CoercionResponse(resp, content))]

\* The coercion response arrives; extract_fields_async returns what
\* parse_response_content returns (lines 120-124).
parse_response_content_response(p) ==
    /\ page[p].pc = "repair_call"
    /\ \E resp \in CoercionResponses :
         page' = [page EXCEPT ![p].pc = "returned", ![p].resp = resp]
    /\ order' = [order EXCEPT ![p[1]] = Append(@, p[2])]
    /\ UNCHANGED << inputs, drv, sem, doc, level, admitLog, files, conversions,
                    parserCalls, modelCalls >>

\* The coercion request fails: nothing catches it.
parse_response_content_error(p) ==
    /\ page[p].pc = "repair_call"
    /\ page' = [page EXCEPT ![p].pc = "raised"]
    /\ UNCHANGED << inputs, drv, sem, doc, order, level, admitLog, files,
                    conversions, parserCalls, modelCalls >>

\* What extract_fields_async returned for a page that has returned: the
\* strictly parsed output_text (line 152), or the result of the repair
\* (lines 169-172).
PageResult(p) ==
    IF page[p].resp = "none"
    THEN ParseFast[page[p].out, PageText(p)].value
    ELSE RepairedResult[page[p].resp, PageText(p)]

\* ----------------------------------- limited_task, extract_multiple_pages_async

\* asyncio.Semaphore: a permit can be taken.
SemFreeAlways == TRUE
SemFree == sem > 0

\* Lines 212-220: the input kinds for which page tasks are made.
AggregatorKindAccepted(input_type) ==
    input_type \in {"PDF", "IMAGE"} \/ input_type = "TEXT"

\* Lines 205-222: the pipeline of document d runs from its start to the
\* gather of its page tasks; an input kind that is not accepted raises, and
\* the exception leaves limited_task, which gives its permit back.  holds:
\* the pipeline runs inside limited_task; free: the permits left.
PipelineStartFirstPageOnly(d, holds, free) ==
    IF AggregatorKindAccepted(doc[d].input_type)
    THEN /\ doc' = [doc EXCEPT ![d].pc = "gathering", ![d].permit = holds]
         /\ page' = [p \in Pages |->
                       IF p = <<d, 0>> THEN NewPage("ready", doc[d].input_type)
                       ELSE page[p]]
         /\ sem' = free
    ELSE /\ doc' = [doc EXCEPT ![d].pc = "raised"]
         /\ sem' = IF holds THEN free + 1 ELSE free
         /\ UNCHANGED page
PipelineStart(d, holds, free) ==
    IF AggregatorKindAccepted(doc[d].input_type)
    THEN /\ doc' = [doc EXCEPT ![d].pc = "gathering", ![d].permit = holds]
         /\ page' = [p \in Pages |->
                       IF p[1] = d THEN NewPage("ready", doc[d].input_type)
                       ELSE page[p]]
         /\ sem' = free
    ELSE /\ doc' = [doc EXCEPT ![d].pc = "raised"]
         /\ sem' = IF holds THEN free + 1 ELSE free
         /\ UNCHANGED page

\* Lines 34-35: async with sem, await coro.  The task takes a permit and
\* starts its pipeline, or waits for a permit; a waiting task goes on once
\* a permit is free.
limited_task_enter(d) ==
    /\ doc[d].pc \in {"created", "gate_wait"}
    /\ IF SemFree
       THEN PipelineStart(d, TRUE, sem - 1)
       ELSE /\ doc[d].pc = "created"
            /\ doc' = [doc EXCEPT ![d].pc = "gate_wait"]
            /\ UNCHANGED << sem, page >>
    /\ UNCHANGED << inputs, drv, order, level, admitLog, files,
                    conversions, parserCalls, modelCalls >>

\* extract_multiple_pages_async called by another caller than limited_task.
extract_multiple_pages_async_call(d) ==
    /\ doc[d].pc = "called"
    /\ PipelineStart(d, FALSE, sem)
    /\ UNCHANGED << inputs, drv, order, level, admitLog, files,
                    conversions, parserCalls, modelCalls >>

\* Leaving the async with block of limited_task gives the permit back.
SemAfterExitKept(d) == sem
SemAfterExit(d) == IF doc[d].permit THEN sem + 1 ELSE sem

\* await asyncio.gather(*tasks) can return: every page task is done.
GatherReadyTolerant(d) == \A p \in PagesOf(d) : page[p].pc \in {"returned", "raised"}
GatherReady(d) == \A p \in PagesOf(d) : page[p].pc = "returned"

\* Lines 222-224: the results of gather, in the order of the tasks.
GatherResultsByCompletion(d) ==
    [k \in 1..Len(order[d]) |-> PageResult(<<d, order[d][k]>>)]
GatherResults(d) ==
    [k \in 1..npages[d] |-> PageResult(<<d, k - 1>>)]

\* Lines 205, 226: the dict a pipeline returns.
DocResult(d) ==
    [response |-> GatherResults(d),
     file_name |-> IF entry = "extract_multiple_pdfs"
                   THEN LastSegment(InputPaths[d])
                   ELSE "conversations"]

\* Lines 222-226: gather returns, the response list is filled and returned.
extract_multiple_pages_async_return(d) ==
    /\ doc[d].pc = "gathering"
    /\ GatherReady(d)
    /\ doc' = [doc EXCEPT ![d].pc = "returned", ![d].permit = FALSE]
    /\ sem' = SemAfterExit(d)
    /\ UNCHANGED << inputs, drv, page, order, level, admitLog, files,
                    conversions, parserCalls, modelCalls >>

\* Line 222: gather raises the first exception of a page task; the other
\* page tasks go on running.
extract_multiple_pages_async_raise_keeps_permit(d) ==
    /\ doc[d].pc = "gathering"
    /\ \E p \in PagesOf(d) : page[p].pc = "raised"
    /\ doc' = [doc EXCEPT ![d].pc = "raised"]
    /\ UNCHANGED << inputs, drv, sem, page, order, level, admitLog, files,
                    conversions, parserCalls, modelCalls >>
extract_multiple_pages_async_raise(d) ==
    /\ doc[d].pc = "gathering"
    /\ \E p \in PagesOf(d) : page[p].pc = "raised"
    /\ doc' = [doc EXCEPT ![d].pc = "raised", ![d].permit = FALSE]
    /\ sem' = SemAfterExit(d)
    /\ UNCHANGED << inputs, drv, page, order, level, admitLog, files,
                    conversions, parserCalls, modelCalls >>

\* ------------------------------------------------ extract_multiple_pdfs

\* Lines 257-274 up to the first suspension: the semaphore is made; with
\* parser the external parser is awaited; without it every input path is
\* converted and the document tasks are handed to gather.
extract_multiple_pdfs_start ==
    /\ drv = "called"
    /\ sem' = ASYNC_CONCURRENCY_LIMIT
    /\ IF parser
       THEN /\ parserCalls' = parserCalls + 1
            /\ drv' = "parsing"
            /\ UNCHANGED << doc, conversions >>
       ELSE /\ conversions' = conversions + nIn
            /\ doc' = [d \in Docs |-> NewDoc("created", "PDF")]
            /\ drv' = "gathering"
            /\ UNCHANGED parserCalls
    /\ UNCHANGED << inputs, page, order, level, admitLog, files, modelCalls >>

\* Lines 262-268: the external parser has answered; one task per pair of
\* zip(parsed_responses, input_paths) is handed to gather.
extract_multiple_pdfs_parsed_as_images ==
    /\ drv = "parsing"
    /\ doc' = [d \in Docs |-> NewDoc("created", "PDF")]
    /\ drv' = "gathering"
    /\ UNCHANGED << inputs, sem, page, order, level, admitLog, files,
                    conversions, parserCalls, modelCalls >>
extract_multiple_pdfs_parsed ==
    /\ drv = "parsing"
    /\ doc' = [d \in Docs |-> NewDoc("created", "TEXT")]
    /\ drv' = "gathering"
    /\ UNCHANGED << inputs, sem, page, order, level, admitLog, files,
                    conversions, parserCalls, modelCalls >>

\* The external parser raises.
extract_multiple_pdfs_parser_error ==
    /\ drv = "parsing"
    /\ drv' = "raised"
    /\ UNCHANGED << inputs, sem, doc, page, order, level, admitLog, files,
                    conversions, parserCalls, modelCalls >>

\* json.dump can encode the value: dicts, strs and None, not an object.
RECURSIVE JsonSerializable(_)
JsonSerializable(value) ==
    CASE value.kind \in {"str", "NoneType"} -> TRUE
      [] value.kind = "dict" ->
            \A k \in DOMAIN value.items : JsonSerializable(value.items[k])
      [] OTHER -> FALSE

ResultSerializable(result) ==
    \A k \in DOMAIN result.response : JsonSerializable(result.response[k])

\* Line 276: the list gather returns, one result per document task.
DriverResults == [d \in 1..nIn |-> DocResult(d)]

\* The first pair of zip(results, output_paths) whose dump raises, or 0.
FirstFailingDump(n) ==
    IF \E j \in 1..n : ~ResultSerializable(DriverResults[j])
    THEN CHOOSE j \in 1..n :
            /\ ~ResultSerializable(DriverResults[j])
            /\ \A i \in 1..(j - 1) : ResultSerializable(DriverResults[i])
    ELSE 0

\* Line 278: the pairs of zip(multi_pdf_extraction_result, output_paths).
ZipLength == Min(nIn, nOut)

\* Lines 276-282: gather has returned the results of all documents; each
\* pair of zip(results, output_paths) is written in turn (the file at
\* output index j gets the result of document source); a dump that raises
\* leaves its file opened and incomplete and ends the call.
extract_multiple_pdfs_return ==
    /\ drv = "gathering"
    /\ \A d \in Docs : doc[d].pc = "returned"
    /\ LET bad == FirstFailingDump(ZipLength)
           last == IF bad = 0 THEN ZipLength ELSE bad
       IN  /\ files' = [j \in 1..last |-> [complete |-> j # bad, source |-> j]]
           /\ drv' = IF bad = 0 THEN "returned" ELSE "raised"
    /\ UNCHANGED << inputs, sem, doc, page, order, level, admitLog,
                    conversions, parserCalls, modelCalls >>

\* Line 276: gather raises the first exception of a document task.
extract_multiple_pdfs_raise_isolating ==
    /\ drv = "gathering"
    /\ \E d \in Docs : doc[d].pc = "raised"
    /\ drv' = "raised"
    /\ files' = [j \in 1..ZipLength |->
                    [complete |-> doc[j].pc = "returned", source |-> j]]
    /\ UNCHANGED << inputs, sem, doc, page, order, level, admitLog,
                    conversions, parserCalls, modelCalls >>
extract_multiple_pdfs_raise ==
    /\ drv = "gathering"
    /\ \E d \in Docs : doc[d].pc = "raised"
    /\ drv' = "raised"
    /\ UNCHANGED << inputs, sem, doc, page, order, level, admitLog, files,
                    conversions, parserCalls, modelCalls >>

\* ------------------------------------------- summarize_transcript (HTTP)

\* Request bodies (List[dict]): conversation turns, of which some lack the
\* keys format_transcript reads.
Transcripts ==
    { <<>>,
      << [id |-> "1", role |-> "bot", message |-> "What is your full name?"],
         [id |-> "2", role |-> "user", message |-> "Rajesh Kumar"] >>,
      << [id |-> "1", role |-> "bot", message |-> "What is your full name?"],
         [id |-> "2", message |-> "Rajesh Kumar"] >>,
      << [id |-> "1", role |-> "bot"] >> }

\* format_transcript raises KeyError: a turn without c['role'] or
\* c['message'].
FormatRaises(request) ==
    \E i \in 1..Len(request) : ~({"role", "message"} \subseteq DOMAIN request[i])

\* Lines 49-55: the handler of request d formats the transcript and calls
\* extract_multiple_pages_async on the one text, kind TEXT, up to the
\* gather; an exception of format_transcript is caught and answered 500.
summarize_transcript_start(d) ==
    /\ doc[d].pc = "request"
    /\ \E request \in Transcripts :
         IF FormatRaises(request)
         THEN /\ doc' = [doc EXCEPT ![d].pc = "response_500"]
              /\ UNCHANGED << sem, page >>
         ELSE PipelineStart(d, FALSE, sem)
    /\ UNCHANGED << inputs, drv, order, level, admitLog, files,
                    conversions, parserCalls, modelCalls >>

\* Line 58: json_output["response"][0], the body of the response.
SummarizeBody(d) == DocResult(d).response[1]

\* Lines 56-60: the aggregator has returned; JSONResponse renders the first
\* record, and a record it cannot encode raises inside the try.
summarize_transcript_return_unchecked(d) ==
    /\ doc[d].pc = "returned"
    /\ doc' = [doc EXCEPT ![d].pc = "response_200"]
    /\ UNCHANGED << inputs, drv, sem, page, order, level, admitLog, files,
                    conversions, parserCalls, modelCalls >>
summarize_transcript_return(d) ==
    /\ doc[d].pc = "returned"
    /\ doc' = [doc EXCEPT ![d].pc = IF JsonSerializable(SummarizeBody(d))
                                    THEN "response_200"
                                    ELSE "response_500"]
    /\ UNCHANGED << inputs, drv, sem, page, order, level, admitLog, files,
                    conversions, parserCalls, modelCalls >>

\* Lines 59-60: the aggregator has raised; the handler answers 500.
summarize_transcript_except(d) ==
    /\ doc[d].pc = "raised"
    /\ doc' = [doc EXCEPT ![d].pc = "response_500"]
    /\ UNCHANGED << inputs, drv, sem, page, order, level, admitLog, files,
                    conversions, parserCalls, modelCalls >>

\* ------------------------------------------------------ specifications

InitState(np) ==
    /\ npages = np
    /\ order = [d \in DOMAIN np |-> <<>>]
    /\ sem = 0
    /\ level = 0
    /\ admitLog = [k \in 1..time_period |-> 0]
    /\ files = <<>>
    /\ conversions = 0
    /\ parserCalls = 0
    /\ modelCalls = 0

\* A call of extract_multiple_pdfs with n input paths and m output paths.
InitDriver(n, m) ==
    /\ entry = "extract_multiple_pdfs"
    /\ nIn = n
    /\ nOut = m
    /\ parser \in BOOLEAN
    /\ ASYNC_CONCURRENCY_LIMIT \in 1..MaxLimit
    /\ max_rate = 1 /\ time_period = 1
    /\ drv = "called"
    /\ doc = [d \in 1..n |-> NewDoc("none", "")]
    /\ \E np \in [1..n -> 0..MaxTasks] :
         /\ n + SumTo(np, n) <= MaxTasks
         /\ InitState(np)
         /\ page = [p \in PagesFor(np) |-> NewPage("none", "")]

\* A call of extract_multiple_pages_async on n pages.
InitPages(kinds) ==
    /\ entry = "extract_multiple_pages_async"
    /\ nIn = 0 /\ nOut = 0 /\ parser = FALSE
    /\ ASYNC_CONCURRENCY_LIMIT = 1
    /\ max_rate = 1 /\ time_period = 1
    /\ drv = "idle"
    /\ \E kind \in kinds : doc = [d \in {1} |-> NewDoc("called", kind)]
    /\ \E n \in 0..(MaxTasks - 1) :
         /\ InitState(<<n>>)
         /\ page = [p \in PagesFor(<<n>>) |-> NewPage("none", "")]

\* n calls of extract_fields_async issued at once, of one input kind.
InitFields(kinds, n) ==
    /\ entry = "extract_fields_async"
    /\ nIn = 0 /\ nOut = 0 /\ parser = FALSE
    /\ ASYNC_CONCURRENCY_LIMIT = 1
    /\ drv = "idle"
    /\ doc = <<>>
    /\ InitState(<<n>>)
    /\ \E kind \in kinds : page = [p \in PagesFor(<<n>>) |-> NewPage("ready", kind)]

\* The calls whose arguments meet len(input_paths) == len(output_paths):
\* the driver (input kinds PDF and TEXT), the aggregator called directly
\* and the page extractor called directly.
Init ==
    \/ \E n \in 0..MaxTasks : InitDriver(n, n)
    \/ InitPages({"IMAGE", "CSV", ""})
    \/ /\ max_rate = 1 /\ time_period = 1
       /\ InitFields(Kinds, 1)

PageStep(p) ==
    \/ extract_fields_async_start(p)
    \/ extract_fields_async_admitted(p)
    \/ extract_fields_async_response(p)
    \/ extract_fields_async_error(p)
    \/ parse_response_content_admitted(p)
    \/ parse_response_content_response(p)
    \/ parse_response_content_error(p)

DocStep(d) ==
    \/ limited_task_enter(d)
    \/ extract_multiple_pages_async_call(d)
    \/ extract_multiple_pages_async_return(d)
    \/ extract_multiple_pages_async_raise(d)

DriverStep ==
    \/ extract_multiple_pdfs_start
    \/ extract_multiple_pdfs_parsed
    \/ extract_multiple_pdfs_parser_error
    \/ extract_multiple_pdfs_return
    \/ extract_multiple_pdfs_raise

Next ==
    \/ \E p \in Pages : PageStep(p)
    \/ \E d \in Docs : DocStep(d)
    \/ DriverStep
    \/ Tick

Spec == Init /\ [][Next]_vars

\* The calls of extract_multiple_pdfs whose path lists differ in length.
InitMismatch ==
    \E n \in 0..MaxTasks : \E m \in 0..(n + 1) : m # n /\ InitDriver(n, m)

SpecMismatch == InitMismatch /\ [][Next]_vars

\* B page extractions issued at once under a limiter of max_rate calls per
\* time_period ticks; time passes, and a task that can run does run.
InitRate ==
    \E n \in 1..MaxBurst : \E r \in 1..MaxRate : \E t \in 1..MaxPeriod :
        /\ r * t <= MaxCapacity
        /\ max_rate = r /\ time_period = t
        /\ InitFields({"TEXT"}, n)

NextRate ==
    \/ \E p \in Pages : PageStep(p)
    \/ Tick

\* Some task that can start, or can leave its wait for the limiter, does.
TaskRuns ==
    \E p \in Pages :
        \/ extract_fields_async_start(p)
        \/ extract_fields_async_admitted(p)

SpecRate ==
    /\ InitRate
    /\ [][NextRate]_vars
    /\ WF_vars(Tick)
    /\ WF_vars(TaskRuns)

\* A call of extract_multiple_pdfs followed to its end: time passes, and a
\* task that can take a step takes one (a model call in flight returns or
\* raises, a task that the limiter or the semaphore lets through goes on).
InitLive ==
    \E n \in 0..MaxLiveTasks :
        /\ InitDriver(n, n)
        /\ n + SumTo(npages, n) <= MaxLiveTasks

GatedDocStep(d) ==
    \/ limited_task_enter(d)
    \/ extract_multiple_pages_async_return(d)
    \/ extract_multiple_pages_async_raise(d)

Progress ==
    \/ \E p \in Pages : PageStep(p)
    \/ \E d \in Docs : GatedDocStep(d)
    \/ DriverStep

NextLive ==
    \/ Progress
    \/ Tick

SpecLive ==
    /\ InitLive
    /\ [][NextLive]_vars
    /\ WF_vars(Tick)
    /\ WF_vars(Progress)

\* The calls of extract_multiple_pdfs with path lists of equal length, of
\* up to MaxTasks tasks.
InitDriverCalls == \E n \in 0..MaxTasks : InitDriver(n, n)

SpecDriver == InitDriverCalls /\ [][NextLive]_vars

\* Requests to /summarize served at once on one event loop, each a
\* transcript extracted as a one-page document.
InitSummarize ==
    /\ entry = "summarize_transcript"
    /\ nIn = 0 /\ nOut = 0 /\ parser = FALSE
    /\ ASYNC_CONCURRENCY_LIMIT = 1
    /\ max_rate = 1 /\ time_period = 1
    /\ drv = "idle"
    /\ \E n \in 1..MaxRequests :
         /\ doc = [d \in 1..n |-> NewDoc("request", "TEXT")]
         /\ InitState([d \in 1..n |-> 1])
         /\ page = [p \in PagesFor([d \in 1..n |-> 1]) |-> NewPage("none", "")]

SummarizeStep(d) ==
    \/ summarize_transcript_start(d)
    \/ extract_multiple_pages_async_return(d)
    \/ extract_multiple_pages_async_raise(d)
    \/ summarize_transcript_return(d)
    \/ summarize_transcript_except(d)

NextSummarize ==
    \/ \E p \in Pages : PageStep(p)
    \/ \E d \in Docs : SummarizeStep(d)
    \/ Tick

SpecSummarize == InitSummarize /\ [][NextSummarize]_vars

\* ----------------------------------------------------------- properties

DriverCall == entry = "extract_multiple_pdfs"

\* The value a strictly valid output_text denotes.
ValidJsonValue(out, content) ==
    IF out = "conforming"
    THEN PyDict(FullFields(content))
    ELSE PyDict([k \in {"fullName", "address"} |-> FullFields(content)[k]])

ValidJsonValues ==
    [out \in {"conforming", "partial"}, content \in AllTexts |->
        ValidJsonValue(out, content)]

\* The response of the coercion call, for each kind of response and page.
CoercionResponseOf ==
    [resp \in CoercionResponses, content \in AllTexts |->
        CoercionResponse(resp, content)]

\* The sum of field f of the page tasks of document d, and of all of them.
FieldSumOf(d, f) ==
    SumTo([k \in 1..npages[d] |-> f[<<d, k - 1>>]], npages[d])

FieldSum(f) ==
    SumTo([d \in 1..Len(npages) |-> FieldSumOf(d, f)], Len(npages))

\* C1: a pipeline that has returned (so every page extraction succeeded)
\* returns a response list with one entry per input page, and entry i is
\* what the extraction of page i returned: for a conforming output the
\* record read off that very page.
C1_OrderPreserved ==
    \A d \in Docs :
        doc[d].pc = "returned" =>
            LET response == DocResult(d).response
            IN  /\ Len(response) = npages[d]
                /\ \A i \in 0..(npages[d] - 1) :
                     /\ response[i + 1] = PageResult(<<d, i>>)
                     /\ page[<<d, i>>].out = "conforming" =>
                          response[i + 1] =
                              ValidJsonValues["conforming", PageText(<<d, i>>)]

\* A pipeline has returned whose pages completed in another order than
\* their positions and returned different records.
C1_Witness ==
    \E d \in Docs :
        /\ doc[d].pc = "returned"
        /\ npages[d] >= 2
        /\ order[d][1] # 0
        /\ PageResult(<<d, 0>>) # PageResult(<<d, 1>>)

\* C2: in a call of extract_multiple_pdfs at most ASYNC_CONCURRENCY_LIMIT
\* pipelines have started and not yet returned or raised, each of them
\* holds a permit, the permits are never overdrawn, and no page task of a
\* document exists before that document's limited_task has a permit.
C2_GateBound ==
    DriverCall =>
        /\ Cardinality({d \in Docs : doc[d].pc = "gathering"}) <= ASYNC_CONCURRENCY_LIMIT
        /\ \A d \in Docs : doc[d].pc = "gathering" => doc[d].permit
        /\ sem >= 0
        /\ \A d \in Docs :
             doc[d].pc \in {"none", "created", "gate_wait"} =>
                 \A p \in PagesOf(d) : page[p].pc = "none"

\* One pipeline is running with its model call in flight while another
\* document waits at the gate.
C2_Witness ==
    /\ DriverCall
    /\ \E d1, d2 \in Docs :
         /\ doc[d1].pc = "gathering"
         /\ \E p \in PagesOf(d1) : page[p].pc = "extract_call"
         /\ doc[d2].pc = "gate_wait"

\* C3: every model request of a page task follows a limiter acquisition of
\* its own: a task has made as many requests as acquisitions, its
\* extraction request is in flight after its first acquisition, its repair
\* request after its second, and the model service has received exactly
\* the requests the limiter admitted.
C3_LimiterBeforeCall ==
    /\ \A p \in Pages :
         /\ page[p].calls = page[p].acquired
         /\ page[p].pc = "extract_call" => page[p].acquired = 1
         /\ page[p].pc = "repair_call" => page[p].acquired = 2
    /\ modelCalls = FieldSum([p \in Pages |-> page[p].acquired])

\* A repair request is in flight (after the task's second acquisition).
C3_Witness ==
    \E p \in Pages : page[p].pc = "repair_call" /\ page[p].calls = 2

\* C5: a pipeline one of whose page extractions has raised never returns a
\* result; it is still gathering, or it has raised.
C5_NoPartialResult ==
    \A d \in Docs :
        (\E p \in PagesOf(d) : page[p].pc = "raised") =>
            doc[d].pc \in {"gathering", "raised"}

\* A pipeline has raised with one page raised and another page returned.
C5_Witness ==
    \E d \in Docs :
        /\ doc[d].pc = "raised"
        /\ \E p, q \in PagesOf(d) : page[p].pc = "raised" /\ page[q].pc = "returned"

\* C6: when the output_text fails strict parsing and the coercion call
\* returns a value that is not an ExtractionClass instance, the page's
\* extraction has returned (it has not raised), and returned the empty
\* record.
C6_DegradeToEmpty ==
    \A p \in Pages :
        (/\ page[p].resp # "none"
         /\ ~IsInstanceExtractionClass(CoercionResponseOf[page[p].resp, PageText(p)])) =>
            /\ page[p].pc = "returned"
            /\ PageResult(p) = EmptyDict

\* A coercion call has answered with the client library's response object.
C6_Witness ==
    \E p \in Pages :
        /\ page[p].out = "truncated"
        /\ page[p].resp = "ParsedResponse"
        /\ page[p].pc = "returned"

\* C7: with an input kind outside PDF, IMAGE, TEXT the aggregator never
\* makes a page task and never returns, the page extractor never acquires
\* the limiter, never sends a request and never returns, and the model
\* service receives no request.
C7_UnsupportedKindRejected ==
    /\ \A d \in Docs :
         doc[d].input_type \notin PermittedKinds /\ doc[d].pc # "none" =>
            /\ doc[d].pc \in {"called", "raised"}
            /\ \A p \in PagesOf(d) : page[p].pc = "none"
            /\ modelCalls = 0 /\ level = 0
    /\ \A p \in Pages :
         page[p].input_type \notin PermittedKinds /\ page[p].pc # "none" =>
            /\ page[p].pc \in {"ready", "raised"}
            /\ page[p].acquired = 0 /\ page[p].calls = 0
            /\ modelCalls = 0 /\ level = 0

\* A direct call of the page extractor with kind CSV has raised.
C7_Witness ==
    \E p \in Pages : page[p].input_type = "CSV" /\ page[p].pc = "raised"

\* C8: a call of extract_multiple_pdfs whose path lists differ in length
\* converts no file, calls no parser, sends no model request, writes no
\* file and never returns.
C8_LengthMismatchRejected ==
    (DriverCall /\ nIn # nOut) =>
        /\ conversions = 0
        /\ parserCalls = 0
        /\ modelCalls = 0
        /\ files = <<>>
        /\ drv \in {"called", "raised"}

\* C9 as stated: every page extraction that has returned holds exactly the
\* 22 ExtractionClass fields, each a string.
C9_SchemaComplete ==
    \A p \in Pages : page[p].pc = "returned" => ConformsToSchema(PageResult(p))

\* C9 as amended: what a page extraction returns is the strictly parsed
\* output_text, unvalidated (it holds the 22 string fields exactly when the
\* output did), or after a repair an ExtractionClass instance with the 22
\* string fields, or the empty record.
C9_SchemaOrDegraded ==
    \A p \in Pages :
        page[p].pc = "returned" =>
            LET result == PageResult(p)
            IN  IF page[p].resp = "none"
                THEN /\ page[p].out \in {"conforming", "partial"}
                     /\ ConformsToSchema(result) <=> page[p].out = "conforming"
                     /\ result.kind = "dict"
                ELSE \/ result = EmptyDict
                     \/ /\ IsInstanceExtractionClass(result)
                        /\ ConformsToSchema(result)

\* Page extractions have returned an ExtractionClass instance, an empty
\* record and a record with missing fields.
C9_Witness ==
    \E p, q, r \in Pages :
        /\ page[p].pc = "returned" /\ IsInstanceExtractionClass(PageResult(p))
        /\ page[q].pc = "returned" /\ PageResult(q) = EmptyDict
        /\ page[r].pc = "returned" /\ page[r].out = "partial"

\* C10: when the output_text is strictly valid JSON, the page extraction
\* has returned its value after one limiter acquisition and one model
\* request, with no coercion call, and the value stands unchanged at the
\* page's position of the document result.
C10_FastPath ==
    \A p \in Pages :
        page[p].out \in {"conforming", "partial"} =>
            /\ page[p].pc = "returned"
            /\ page[p].acquired = 1 /\ page[p].calls = 1
            /\ page[p].resp = "none"
            /\ PageResult(p) = ValidJsonValues[page[p].out, PageText(p)]
            /\ (p[1] \in Docs /\ doc[p[1]].pc = "returned") =>
                 DocResult(p[1]).response[p[2] + 1] =
                     ValidJsonValues[page[p].out, PageText(p)]

\* A one-page document has returned with a strictly valid output.
C10_Witness ==
    \E d \in Docs :
        /\ doc[d].pc = "returned"
        /\ npages[d] = 1
        /\ page[<<d, 0>>].out = "conforming"
        /\ DocResult(d).response[1] = ValidJsonValues["conforming", PageText(<<d, 0>>)]

\* Every page extraction has had its extraction request admitted.
AllAdmitted == \A p \in Pages : page[p].acquired >= 1

\* A page extraction raises only after its request was admitted and sent.
NoneRejected == \A p \in Pages : page[p].pc = "raised" => page[p].calls >= 1

C11_OneFilePerDocument ==
    (/\ DriverCall /\ nIn = nOut /\ nIn >= 1
     /\ drv \in {"returned", "raised"}
     /\ \A d \in Docs : doc[d].pc = "returned") =>
        /\ drv = "returned"
        /\ Len(files) = nIn
        /\ \A i \in 1..nIn :
             /\ files[i].complete
             /\ files[i].source = i
             /\ DriverResults[i].file_name = LastSegment(InputPaths[i])
             /\ Len(DriverResults[i].response) = npages[i]
             /\ \A k \in 1..npages[i] :
                  DriverResults[i].response[k] = PageResult(<<i, k - 1>>)

\* The permits document tasks hold.
PermitsHeld == Cardinality({d \in Docs : doc[d].permit})

Finished(d) == doc[d].pc \in {"returned", "raised"}

\* C12: from the moment the semaphore exists, the free permits and the
\* permits held add up to ASYNC_CONCURRENCY_LIMIT, a document whose
\* pipeline has returned or raised holds none, so that with every document
\* task finished all permits are free; and a document that waits at the
\* gate is eventually admitted.
C12_PermitsReleased ==
    /\ []((DriverCall /\ drv # "called") =>
            /\ sem + PermitsHeld = ASYNC_CONCURRENCY_LIMIT
            /\ \A d \in Docs : Finished(d) => ~doc[d].permit
            /\ (\A d \in Docs : Finished(d)) => sem = ASYNC_CONCURRENCY_LIMIT)
    /\ \A d \in 1..MaxLiveTasks :
         (d \in Docs /\ doc[d].pc = "gate_wait") ~>
             (d \in Docs /\ doc[d].pc \in {"gathering", "returned", "raised"})

\* With one permit, a document's pipeline has raised and a second document
\* now runs with the permit.
C12_Witness ==
    /\ DriverCall
    /\ ASYNC_CONCURRENCY_LIMIT = 1
    /\ \E d1, d2 \in Docs :
         /\ doc[d1].pc = "raised" /\ ~doc[d1].permit
         /\ doc[d2].pc = "gathering" /\ doc[d2].permit

\* The record a coercion response carries: the response itself, or the
\* output_parsed of the client library's response object.
CoercedRecord(response) ==
    IF response.kind = "ParsedResponse"
    THEN response.items["output_parsed"]
    ELSE response

\* C13: when the output_text failed strict parsing and the coercion call
\* yielded a record conforming to ExtractionClass, the page extraction has
\* returned that record with the model's field values, not an empty one.
C13_RepairReturnsRecord ==
    \A p \in Pages :
        (/\ page[p].resp # "none"
         /\ ConformsToSchema(CoercedRecord(CoercionResponseOf[page[p].resp, PageText(p)]))) =>
            /\ page[p].pc = "returned"
            /\ PageResult(p) # EmptyDict
            /\ PageResult(p).items =
                 CoercedRecord(CoercionResponseOf[page[p].resp, PageText(p)]).items

\* C14: a request to /summarize is answered 500 exactly when an exception
\* was raised inside the handler (format_transcript raised before any page
\* task existed, the page extraction raised, or the record cannot be
\* encoded), no raised or returned extraction is left unanswered, and a
\* request answered 200 has as its body the record of its only page.
C14_SummarizeAnswers ==
    (entry = "summarize_transcript") =>
        \A d \in Docs :
            /\ doc[d].pc \in {"request", "gathering", "returned", "raised",
                              "response_200", "response_500"}
            /\ doc[d].pc = "raised" => ENABLED summarize_transcript_except(d)
            /\ doc[d].pc = "returned" => ENABLED summarize_transcript_return(d)
            /\ doc[d].pc = "response_500" =>
                 \/ page[<<d, 0>>].pc = "none"
                 \/ page[<<d, 0>>].pc = "raised"
                 \/ /\ page[<<d, 0>>].pc = "returned"
                    /\ ~JsonSerializable(PageResult(<<d, 0>>))
            /\ doc[d].pc = "response_200" =>
                 /\ page[<<d, 0>>].pc = "returned"
                 /\ JsonSerializable(PageResult(<<d, 0>>))
                 /\ SummarizeBody(d) = PageResult(<<d, 0>>)

\* One request was answered 500 because its record was an ExtractionClass
\* object, another 200 with an empty record.
C14_Witness ==
    /\ entry = "summarize_transcript"
    /\ \E d, e \in Docs :
         /\ doc[d].pc = "response_500"
         /\ page[<<d, 0>>].pc = "returned"
         /\ IsInstanceExtractionClass(PageResult(<<d, 0>>))
         /\ doc[e].pc = "response_200"
         /\ SummarizeBody(e) = EmptyDict

DriverDone == drv \in {"returned", "raised"}

\* No document task waits at the gate, no page task waits for the limiter.
NoTaskWaiting ==
    /\ \A d \in Docs : doc[d].pc \notin {"created", "gate_wait"}
    /\ \A p \in Pages : page[p].pc \notin {"ready", "acquire_extract", "acquire_repair"}

\* C16: with time passing and every model call returning or raising, a
\* call of extract_multiple_pdfs eventually returns or raises, from some
\* moment on no task waits at the gate or for the limiter, and a task
\* acquires the limiter for its repair request only after the response of
\* its extraction request has arrived (its first limiter scope is closed).
C16_Terminates ==
    /\ <>DriverDone
    /\ <>[]NoTaskWaiting
    /\ [](\A p \in Pages :
            page[p].pc \in {"acquire_repair", "repair_call"} =>
                /\ page[p].out # "none"
                /\ page[p].calls >= 1)

\* A call on two documents under one permit has returned after two model
\* requests.
C16_Witness ==
    /\ drv = "returned"
    /\ nIn = 2
    /\ ASYNC_CONCURRENCY_LIMIT = 1
    /\ modelCalls = 2

\* A model request of page task p is in flight.
InFlight(p) == page[p].pc \in {"extract_call", "repair_call"}

\* C17: in a call of extract_multiple_pdfs every model request in flight
\* belongs to a page of a document that holds a permit, and at most
\* ASYNC_CONCURRENCY_LIMIT documents have requests in flight.
C17_CallsUnderPermit ==
    DriverCall =>
        /\ \A p \in Pages : InFlight(p) => doc[p[1]].permit
        /\ Cardinality({d \in Docs : \E p \in PagesOf(d) : InFlight(p)})
               <= ASYNC_CONCURRENCY_LIMIT

\* C18: in a call of extract_multiple_pdfs no output file exists before
\* gather has returned, a file exists only when every document's pipeline
\* has returned, and once a pipeline has raised no file is ever written and
\* the call does not return.
C18_NoFileUnlessAllSucceed ==
    DriverCall =>
        /\ drv \in {"called", "parsing", "gathering"} => files = <<>>
        /\ files # <<>> => \A d \in Docs : doc[d].pc = "returned"
        /\ (\E d \in Docs : doc[d].pc = "raised") =>
               /\ files = <<>>
               /\ drv # "returned"

\* The call has raised with one pipeline returned and another raised, and
\* no file written.
C18_Witness ==
    /\ DriverCall
    /\ drv = "raised"
    /\ files = <<>>
    /\ \E d1, d2 \in Docs :
         /\ doc[d1].pc = "returned" /\ PagesOf(d1) # {}
         /\ doc[d2].pc = "raised"

\* The model requests issued for the pages of document d.
CallsOf(d) == FieldSumOf(d, [p \in Pages |-> page[p].calls])

\* C19: a page task of a permitted kind sends at most two requests, the
\* first once it is past the limiter, a second one only after an
\* output_text that failed strict parsing; a page that has returned has
\* sent one request, or two if it was repaired; and a document of N pages
\* that has returned has had at least N and at most 2N requests.
C19_RequestsPerPage ==
    /\ \A p \in Pages :
         page[p].input_type \in PermittedKinds =>
            /\ page[p].calls <= 2
            /\ page[p].pc \in {"ready", "acquire_extract"} => page[p].calls = 0
            /\ page[p].pc \in {"extract_call", "acquire_repair"} => page[p].calls = 1
            /\ page[p].calls = 2 => page[p].out = "truncated"
            /\ page[p].pc = "returned" =>
                 page[p].calls = IF page[p].resp = "none" THEN 1 ELSE 2
    /\ \A d \in Docs :
         doc[d].pc = "returned" =>
            /\ npages[d] <= CallsOf(d)
            /\ CallsOf(d) <= 2 * npages[d]

\* A document of two pages has returned after three requests: one page was
\* repaired, the other not.
C19_Witness ==
    \E d \in Docs :
        /\ doc[d].pc = "returned"
        /\ npages[d] = 2
        /\ CallsOf(d) = 3

\* C20: once a document's pipeline has started on a permitted kind, every
\* one of its page tasks exists; a page task that has not yet sent its
\* request can always take its next step when the limiter has capacity,
\* whatever its sibling pages are doing, and a task not yet run can always
\* run: a page waits for the limiter only, never for a sibling or the gate.
C20_PagesStartTogether ==
    /\ \A d \in Docs :
         (/\ doc[d].pc \in {"gathering", "returned", "raised"}
          /\ doc[d].input_type \in PermittedKinds) =>
             \A p \in PagesOf(d) : page[p].pc # "none"
    /\ \A p \in Pages :
         /\ page[p].pc = "ready" => ENABLED extract_fields_async_start(p)
         /\ (page[p].pc = "acquire_extract" /\ HasCapacity) =>
                ENABLED extract_fields_async_admitted(p)

\* Under a gate of one permit, the three extraction requests of a
\* three-page document are in flight together.
C20_Witness ==
    /\ DriverCall
    /\ ASYNC_CONCURRENCY_LIMIT = 1
    /\ \E d \in Docs :
         /\ npages[d] = 3
         /\ \A p \in PagesOf(d) : page[p].pc = "extract_call"

\* The input kind every document task and every page task of the driver
\* call has been given so far is kind.
AllOfKind(kind) ==
    /\ \A d \in Docs : doc[d].pc # "none" => doc[d].input_type = kind
    /\ \A p \in Pages : page[p].pc # "none" => page[p].input_type = kind

\* No document task, page task or model request exists yet.
NothingStarted ==
    /\ \A d \in Docs : doc[d].pc = "none"
    /\ \A p \in Pages : page[p].pc = "none"
    /\ modelCalls = 0

\* C21: in a call of extract_multiple_pdfs with parser = True the external
\* parser is called once for all input paths, no document task, page task
\* or model request exists until that call has answered (and none ever if
\* it raises), nothing is converted locally, and every document and page
\* task gets kind TEXT; with parser = False the external parser is never
\* called, every input path is converted locally, and every document and
\* page task gets kind PDF.
C21_ModesDoNotMix ==
    DriverCall =>
        IF parser
        THEN /\ parserCalls = (IF drv = "called" THEN 0 ELSE 1)
             /\ conversions = 0
             /\ drv \in {"called", "parsing"} => NothingStarted
             /\ (\E d \in Docs : doc[d].pc = "none") => NothingStarted
             /\ AllOfKind("TEXT")
        ELSE /\ parserCalls = 0
             /\ drv # "parsing"
             /\ conversions = (IF drv = "called" THEN 0 ELSE nIn)
             /\ drv = "called" => NothingStarted
             /\ AllOfKind("PDF")

\* With parser = True, after the one parser call, the pages of two
\* documents are being extracted as TEXT: one request is in flight and
\* another page has returned.
C21_Witness ==
    /\ DriverCall
    /\ parser
    /\ parserCalls = 1
    /\ drv = "gathering"
    /\ \E p, q \in Pages :
         /\ p[1] # q[1]
         /\ page[p].pc = "extract_call" /\ page[p].input_type = "TEXT"
         /\ page[q].pc = "returned" /\ page[q].input_type = "TEXT"

====
